---- MODULE Spec2Model ----
(***************************************************************************)
(* Model of backend/main.py: one websocket connection served by           *)
(* websocket_endpoint, with its AgentSession (initialize, handle_message). *)
(* The language model, the tool executors and the client are the           *)
(* environment: their answers are drawn from small sets.                   *)
(***************************************************************************)
EXTENDS Naturals, Sequences, FiniteSets, TLC

\* ------------------------------------------------------------------ bounds

\* Inbound payloads the client sends over one connection.
MaxPayloads == 3
\* The client sends a further payload only while the transcript is this short.
MaxTranscript == 4
\* Tool calls carried by one streamed model response.
MaxCalls == 2

\* ------------------------------------------------------- program constants

\* main.py line 198: for _ in range(10)
MaxTurns == 10

\* Python's None / an absent key of a dict.
None == "None"

\* main.py lines 92-144: the names of TOOL_DEFINITIONS, in order.
TOOL_DEFINITIONS == <<"read_file", "write_file", "run_terminal_command", "web_search">>

ToolNames == {TOOL_DEFINITIONS[i] : i \in DOMAIN TOOL_DEFINITIONS}

\* main.py lines 146-158: which template a system prompt was rendered from.
PROMPT_AGENT == "PROMPT_AGENT"
PROMPT_CHAT == "PROMPT_CHAT"

\* ------------------------------------------------------------ environment

\* Payloads a client may send (main.py lines 313-334 read type, mode, content,
\* images and path; an absent key is None, absent images are the empty list).
Payloads ==
    { [type |-> None, mode |-> "agent", content |-> "hi", images |-> <<>>, path |-> None],
      [type |-> None, mode |-> "chat", content |-> "hi", images |-> <<>>, path |-> None],
      [type |-> None, mode |-> "plan", content |-> "hi", images |-> <<>>, path |-> None],
      [type |-> None, mode |-> "chat", content |-> None, images |-> <<>>, path |-> None],
      [type |-> "user_message", mode |-> None, content |-> "hi", images |-> <<"img">>, path |-> None],
      [type |-> "get_file_content", mode |-> None, content |-> None, images |-> <<>>, path |-> "a.txt"] }

\* Pieces of argument text the model streams.
FIELDS == "\"path\":\"d/a.txt\",\"content\":\"x\",\"command\":\"ls\",\"query\":\"q\""

\* Tool calls the model may put in a response: a name (registered or not) and
\* the pieces of its argument text.
CallKinds ==
        { [name |-> "read_file", args |-> <<"{", FIELDS, "}">>],
          [name |-> "write_file", args |-> <<"{", FIELDS, "}">>],
          [name |-> "run_terminal_command", args |-> <<"{", FIELDS>>],
          [name |-> "web_search", args |-> <<"{", "}">>],
          [name |-> "delete_file", args |-> <<"{", FIELDS, "}">>],
          [name |-> "read_file", args |-> <<"[]">>] }

\* Text the model may stream, as its fragments.
Texts == { <<>>, <<"Hello">>, <<"Hel", "lo">> }

\* The id the model gives the call at an index.
CallId(idx) == IF idx = 0 THEN "call_0" ELSE IF idx = 1 THEN "call_1"
               ELSE IF idx = 2 THEN "call_2" ELSE "call_n"

\* The call of a model that keeps asking for the same file.
PlainCall == [name |-> "read_file", args |-> <<"{", FIELDS, "}">>]

\* A complete response: its text fragments and its tool calls by index. A text
\* of several fragments comes without calls, several calls come without text,
\* and the calls after the second are the plain one.
RichResponses ==
    { r \in [text : Texts,
              calls : UNION { [{i \in 0..MaxCalls : i < n} -> CallKinds] : n \in 0..MaxCalls }] :
        /\ Len(r.text) > 1 => DOMAIN r.calls = {}
        /\ Len(r.text) > 0 => Cardinality(DOMAIN r.calls) <= 1
        /\ \A i \in DOMAIN r.calls : i > 1 => r.calls[i] = PlainCall }

\* The answers of a model that stops, or asks for the plain call.
FinalResponses == { [text |-> <<"Hel", "lo">>, calls |-> <<>>] }
PlainResponses == FinalResponses \cup { [text |-> <<>>, calls |-> [i \in {0} |-> PlainCall]] }

\* ---------------------------------------------------------------- state

VARIABLES
    pc,                      \* where the connection's task stands
    nrecv,                   \* payloads the client has sent so far
    initialized,             \* websocket_endpoint's local flag
    message,                 \* websocket_endpoint's last parsed payload (none: <<>>)
    mode,                    \* AgentSession.mode
    messages,                \* AgentSession.messages, the transcript
    allowed_tools,           \* handle_message's local list
    turn,                    \* handle_message's loop variable: iterations begun
    stream,                  \* the response being streamed by the model
    current_thought_id,
    current_thought_content,
    tool_calls,              \* handle_message's accumulator, by index
    key_order,               \* the order in which tool_calls got its keys
    next_call,               \* position in sorted(tool_calls.keys())
    sent,                    \* every websocket.send_json, in order
    requests,                \* every client.chat.completions.create, in order
    executed                 \* every tool executor invocation, in order

vars == <<pc, nrecv, initialized, message, mode, messages, allowed_tools, turn,
          stream, current_thought_id, current_thought_content, tool_calls,
          key_order, next_call, sent, requests, executed>>

session == <<mode, messages>>
locals == <<allowed_tools, turn, stream, current_thought_id,
            current_thought_content, tool_calls, key_order, next_call>>

\* No response in flight.
NoStream == [resp |-> [text |-> <<>>, calls |-> <<>>], text_pos |-> 0,
             started |-> {}, arg_pos |-> <<>>]

\* main.py lines 163-166 and 308-310.
Init ==
    /\ pc = "receive"
    /\ nrecv = 0
    /\ initialized = FALSE
    /\ message = <<>>
    /\ mode = "agent"
    /\ messages = <<>>
    /\ allowed_tools = <<>>
    /\ turn = 0
    /\ stream = NoStream
    /\ current_thought_id = None
    /\ current_thought_content = ""
    /\ tool_calls = <<>>
    /\ key_order = <<>>
    /\ next_call = 0
    /\ sent = <<>>
    /\ requests = <<>>
    /\ executed = <<>>

\* ------------------------------------------------------- pure helpers

\* Python truth of an optional text: neither None nor empty.
Truthy(v) == v # None /\ v # ""

RECURSIVE Concat(_)
\* The text made of a sequence of pieces.
Concat(pieces) == IF pieces = <<>> THEN "" ELSE Head(pieces) \o Concat(Tail(pieces))

RECURSIVE SortedKeysDescending(_)
\* The keys in descending order.
SortedKeysDescending(keys) ==
    IF keys = {} THEN <<>>
    ELSE LET hi == CHOOSE k \in keys : \A j \in keys : k >= j
         IN <<hi>> \o SortedKeysDescending(keys \ {hi})

\* The keys in the order the dict got them: a loop without sorted().
KeysInInsertionOrder(keys) == key_order

RECURSIVE SortedKeys(_)
\* sorted(tool_calls.keys()), main.py lines 239 and 253.
SortedKeys(keys) ==
    IF keys = {} THEN <<>>
    ELSE LET lo == CHOOSE k \in keys : \A j \in keys : k <= j
         IN <<lo>> \o SortedKeys(keys \ {lo})

\* json.loads on an argument text (main.py line 258), over the texts the pieces
\* can form: "{}" and "{<fields>}" are objects, "[]" is a list, anything else
\* (the empty text, a truncated object, ...) does not parse.
json_loads(text) ==
    IF text = "{}" THEN [ok |-> TRUE, dict |-> TRUE, value |-> <<>>]
    ELSE IF text = "{" \o FIELDS \o "}"
    THEN [ok |-> TRUE, dict |-> TRUE,
          value |-> [k \in {"path", "content", "command", "query"} |->
                        CASE k = "path" -> "d/a.txt"
                          [] k = "content" -> "x"
                          [] k = "command" -> "ls"
                          [] k = "query" -> "q"]]
    ELSE IF text = "[]" THEN [ok |-> TRUE, dict |-> FALSE, value |-> <<>>]
    ELSE [ok |-> FALSE, dict |-> FALSE, value |-> <<>>]

\* A parse whose failure is not caught.
ParseArgsUncaught(text) == json_loads(text)

\* main.py lines 257-260: try: args = json.loads(...) except: args = {}
ParseArgs(text) ==
    LET r == json_loads(text)
    IN IF r.ok THEN r ELSE [ok |-> TRUE, dict |-> TRUE, value |-> <<>>]

\* args.get(key, "") on a dict.
Get(args, key) == IF key \in DOMAIN args.value THEN args.value[key] ELSE ""

\* The arguments each branch of the dispatch reads (main.py lines 265, 271,
\* 284-285, 296); a name outside the registry reads none.
ArgKeys(func_name) ==
    CASE func_name = "run_terminal_command" -> <<"command">>
      [] func_name = "read_file" -> <<"path">>
      [] func_name = "write_file" -> <<"path", "content">>
      [] func_name = "web_search" -> <<"query">>
      [] OTHER -> <<>>

\* ------------------------------------------------------- tool executors

\* main.py lines 38-45: the file's text, or an error text.
read_file(path) == { "data", "Error: File '" \o path \o "' not found." }

\* main.py lines 47-54.
write_file(path, content) == { "Successfully wrote to " \o path, "Error writing file: e" }

\* main.py lines 56-73.
run_terminal_command(command) == { "out", "Error: Command timed out." }

\* main.py lines 75-86.
web_search(query) == { "Title: t", "Error performing web search: e" }

\* What an executor may return for the argument values it is called with.
ToolOutputs(func_name, a) ==
    CASE func_name = "run_terminal_command" -> run_terminal_command(a[1])
      [] func_name = "read_file" -> read_file(a[1])
      [] func_name = "write_file" -> write_file(a[1], a[2])
      [] func_name = "web_search" -> web_search(a[1])

\* len(content.splitlines()) and content[:500] for the short texts above.
LineCount(content) == IF content = "" THEN 0 ELSE 1
Preview(content) == content

\* ------------------------------------------------------- AgentSession

\* prompt.format(structure=structure), main.py line 172.
Render(prompt) == prompt \o "{structure}"

\* main.py line 171.
PromptFor(m) == IF m = "agent" THEN PROMPT_AGENT ELSE PROMPT_CHAT

\* main.py lines 174-177: the session-started event.
StartedEvent(m) ==
    [type |-> "thought", content |-> "Session started in " \o m \o " mode. I'm ready."]

\* A session that advertises every tool in every mode.
AllowedToolsUnfiltered(m) == TOOL_DEFINITIONS

\* main.py lines 192-195.
AllowedTools(m) ==
    IF m = "chat"
    THEN SelectSeq(TOOL_DEFINITIONS, LAMBDA t : t \in {"read_file", "web_search"})
    ELSE TOOL_DEFINITIONS

\* main.py lines 181-190: the user message handle_message appends.
UserMessage(user_content, images) ==
    IF images # <<>>
    THEN [role |-> "user",
          content |-> <<[type |-> "text", text |-> user_content]>>
                      \o [i \in 1..Len(images) |->
                            [type |-> "image_url", image_url |-> [url |-> images[i]]]]]
    ELSE [role |-> "user", content |-> user_content]

\* message.get(key, default), main.py lines 328, 331 and 334.
GetOr(v, default) == IF v = None THEN default ELSE v

\* A loop that runs one iteration too many.
LoopContinuesOffByOne(n) == n <= MaxTurns

\* main.py line 198: whether the loop begins another iteration.
LoopContinues(n) == n < MaxTurns

\* handle_message returns: its locals are gone, the endpoint reads again.
Return ==
    /\ pc' = "receive"
    /\ allowed_tools' = <<>>
    /\ turn' = 0
    /\ stream' = NoStream
    /\ current_thought_id' = None
    /\ current_thought_content' = ""
    /\ tool_calls' = <<>>
    /\ key_order' = <<>>
    /\ next_call' = 0

\* main.py lines 336-339: an exception reaches websocket_endpoint, which ends;
\* the locals of handle_message are gone with it.
Close ==
    /\ pc' = "closed"
    /\ allowed_tools' = <<>>
    /\ turn' = 0
    /\ stream' = NoStream
    /\ current_thought_id' = None
    /\ current_thought_content' = ""
    /\ tool_calls' = <<>>
    /\ key_order' = <<>>
    /\ next_call' = 0

\* An endpoint that initializes the session on every payload.
MustInitializeAlways == TRUE

\* main.py line 327: whether the endpoint initializes the session on a payload.
MustInitialize == ~initialized

\* main.py lines 330 and 333: whether the payload starts a turn.
StartsTurn(p) ==
    IF MustInitialize
    THEN Truthy(p.content) \/ p.images # <<>>
    ELSE p.type = "user_message"

\* An endpoint that treats no payload as a file request.
IsFileRequestNever(p) == FALSE

\* main.py line 317: whether the payload is a file viewer request.
IsFileRequest(p) == p.type = "get_file_content"

\* A task that reads the next payload while a turn is still running.
AwaitsPayloadAnytime == pc # "closed"

\* main.py lines 312-313 and 329-334: the endpoint's loop is at receive_text; it
\* awaits handle_message to its end before it reads again.
AwaitsPayload == pc = "receive"

\* main.py lines 313-334: one inbound payload, up to the first completion request.
Receive ==
    /\ AwaitsPayload
    /\ nrecv < MaxPayloads
    /\ nrecv = 0 \/ Len(messages) <= MaxTranscript
    /\ \E p \in Payloads :
        /\ nrecv' = nrecv + 1
        /\ message' = p
        /\ IF IsFileRequest(p)
           THEN \E content \in read_file(p.path) :
                /\ sent' = Append(sent, [type |-> "file_content", path |-> p.path,
                                         content |-> content])
                /\ UNCHANGED <<pc, initialized, session, locals, requests, executed>>
           ELSE LET init == MustInitialize
                    m == GetOr(p.mode, "agent")
                    base == IF init
                            THEN <<[role |-> "system", content |-> Render(PromptFor(m))]>>
                            ELSE messages
                IN /\ initialized' = TRUE
                   /\ mode' = IF init THEN m ELSE mode
                   /\ sent' = IF init THEN Append(sent, StartedEvent(m)) ELSE sent
                   /\ IF StartsTurn(p)
                      THEN /\ messages' = Append(base, UserMessage(GetOr(p.content, ""), p.images))
                           /\ allowed_tools' = AllowedTools(mode')
                           /\ turn' = 0
                           /\ pc' = "create"
                           /\ UNCHANGED <<stream, current_thought_id, current_thought_content,
                                          tool_calls, key_order, next_call>>
                      ELSE /\ messages' = base
                           /\ UNCHANGED <<pc, locals>>
                   /\ UNCHANGED <<requests, executed>>

\* main.py lines 313-314 and 336-339: a payload that is not a JSON object, or a
\* disconnect, ends the endpoint.
ReceiveFails ==
    /\ pc = "receive"
    /\ nrecv < MaxPayloads
    /\ Close
    /\ nrecv' = nrecv + 1
    /\ UNCHANGED <<initialized, message, session, sent, requests, executed>>

\* ------------------------------------------------- the completion request

\* How many user messages the transcript holds: which call of handle_message
\* a request belongs to.
UserCount(msgs) == Cardinality({i \in DOMAIN msgs : msgs[i].role = "user"})

\* main.py line 203: tools=allowed_tools if allowed_tools else None
ToolsParam(tools) == IF tools # <<>> THEN tools ELSE None

\* The first request of a connection whose first payload starts the turn: the
\* model and the executors answer it with anything they can.
FirstRound ==
    /\ nrecv = 1
    /\ IF pc = "create" THEN requests = <<>> ELSE Len(requests) = 1

\* Every tool call the transcript holds so far is the plain one.
PlainSoFar ==
    \A i \in DOMAIN messages :
        "tool_calls" \in DOMAIN messages[i] =>
            /\ Len(messages[i].tool_calls) = 1
            /\ messages[i].tool_calls[1].function =
                   [name |-> PlainCall.name, arguments |-> Concat(PlainCall.args)]

\* What the model may answer: anything in the first round; afterwards it stops,
\* or, after plain calls only, asks for the plain call again.
Responses ==
    IF FirstRound THEN RichResponses
    ELSE IF PlainSoFar THEN PlainResponses
    ELSE FinalResponses

\* os.urandom(4).hex(), main.py line 210.
RandomHex(resp) ==
    IF FirstRound /\ DOMAIN resp.calls = {} THEN {"00000000", "ffffffff"} ELSE {"00000000"}

\* main.py lines 198-212: the request succeeds and the stream opens.
CreateStream ==
    /\ pc = "create"
    /\ \E resp \in Responses : \E hex \in RandomHex(resp) :
        /\ requests' = Append(requests, [for_user |-> UserCount(messages),
                                         tools |-> ToolsParam(allowed_tools),
                                         ok |-> TRUE])
        /\ turn' = turn + 1
        /\ stream' = [resp |-> resp, text_pos |-> 0, started |-> {},
                      arg_pos |-> [i \in DOMAIN resp.calls |-> 0]]
        /\ current_thought_id' = "thought-" \o hex
        /\ current_thought_content' = ""
        /\ tool_calls' = <<>>
        /\ key_order' = <<>>
        /\ pc' = "chunks"
        /\ UNCHANGED <<nrecv, initialized, message, session, allowed_tools, next_call,
                       sent, executed>>

\* A failed request that is reported and then tried again.
CreateFailsAndRetries ==
    /\ pc = "create"
    /\ turn < MaxTurns
    /\ requests' = Append(requests, [for_user |-> UserCount(messages),
                                     tools |-> ToolsParam(allowed_tools),
                                     ok |-> FALSE])
    /\ sent' = Append(sent, [type |-> "thought", content |-> "LLM Error: e"])
    /\ turn' = turn + 1
    /\ UNCHANGED <<pc, nrecv, initialized, message, session, allowed_tools, stream,
                   current_thought_id, current_thought_content, tool_calls, key_order,
                   next_call, executed>>

\* main.py lines 206-208: the request raises.
CreateFails ==
    /\ pc = "create"
    /\ requests' = Append(requests, [for_user |-> UserCount(messages),
                                     tools |-> ToolsParam(allowed_tools),
                                     ok |-> FALSE])
    /\ sent' = Append(sent, [type |-> "thought", content |-> "LLM Error: e"])
    /\ Return
    /\ UNCHANGED <<nrecv, initialized, message, session, executed>>

\* --------------------------------------------------- Streaming Aggregator

\* An accumulator that keeps only the last fragment's text.
ReplaceArgs(args, arguments) == arguments

\* main.py line 229: tool_calls[idx]["args"] += tc.function.arguments
AppendArgs(args, arguments) == args \o arguments

\* main.py lines 225-229: one tool-call fragment folded into the accumulator.
Accumulate(calls, tc) ==
    LET idx == tc.index
        seen == IF idx \in DOMAIN calls
                THEN calls
                ELSE [j \in DOMAIN calls \cup {idx} |->
                        IF j = idx THEN [id |-> tc.id, name |-> tc.name, args |-> ""]
                        ELSE calls[j]]
        named == IF Truthy(tc.name)
                 THEN [seen EXCEPT ![idx].name = tc.name]
                 ELSE seen
    IN IF Truthy(tc.arguments)
       THEN [named EXCEPT ![idx].args = AppendArgs(named[idx].args, tc.arguments)]
       ELSE named

RECURSIVE AccumulateAll(_, _)
\* main.py lines 224-229 over the fragments of one chunk, or of a whole stream.
AccumulateAll(calls, frags) ==
    IF frags = <<>> THEN calls
    ELSE AccumulateAll(Accumulate(calls, Head(frags)), Tail(frags))

\* The chunks the model may send next: a piece of the remaining text, or the next
\* fragment of one tool call, or both. The first fragment of a call carries its
\* id and name; later ones carry only argument text.
NextDeltas ==
    LET resp == stream.resp
        left == Len(resp.text) - stream.text_pos
        Rest(i) == Len(resp.calls[i].args) - stream.arg_pos[i]
        Frag(i, k) ==
            [index |-> i,
             id |-> IF i \in stream.started THEN None ELSE CallId(i),
             name |-> IF i \in stream.started THEN None ELSE resp.calls[i].name,
             arguments |-> Concat(SubSeq(resp.calls[i].args, stream.arg_pos[i] + 1,
                                         stream.arg_pos[i] + k)),
             pieces |-> k]
        frags == UNION { { <<Frag(i, k)>> :
                             k \in { c \in 0..Rest(i) : i \in stream.started => c > 0 } } :
                         i \in DOMAIN resp.calls }
    IN { d \in [n : 0..left, tool_calls : frags \cup {<<>>}] :
           d.n > 0 \/ d.tool_calls # <<>> }

\* delta.content of a chunk.
DeltaContent(d) ==
    IF d.n = 0 THEN None
    ELSE Concat(SubSeq(stream.resp.text, stream.text_pos + 1, stream.text_pos + d.n))

\* A thought that carries only the last fragment.
CumulateLast(so_far, content) == content

\* main.py line 217: current_thought_content += delta.content
Cumulate(so_far, content) == so_far \o content

\* main.py lines 214-229: one chunk of the stream.
Chunk ==
    /\ pc = "chunks"
    /\ \E d \in NextDeltas :
        LET content == DeltaContent(d)
            thought == IF Truthy(content)
                       THEN Cumulate(current_thought_content, content)
                       ELSE current_thought_content
        IN /\ current_thought_content' = thought
           /\ sent' = IF Truthy(content)
                      THEN Append(sent, [id |-> current_thought_id, type |-> "thought",
                                         content |-> thought])
                      ELSE sent
           /\ tool_calls' = AccumulateAll(tool_calls, d.tool_calls)
           /\ key_order' = key_order \o SelectSeq([j \in DOMAIN d.tool_calls |-> d.tool_calls[j].index],
                                                 LAMBDA idx : idx \notin DOMAIN tool_calls)
           /\ stream' = [stream EXCEPT
                           !.text_pos = @ + d.n,
                           !.started = @ \cup {d.tool_calls[j].index : j \in DOMAIN d.tool_calls},
                           !.arg_pos = [i \in DOMAIN @ |->
                                           IF \E j \in DOMAIN d.tool_calls : d.tool_calls[j].index = i
                                           THEN @[i] + d.tool_calls[1].pieces
                                           ELSE @[i]]]
    /\ UNCHANGED <<pc, nrecv, initialized, message, session, allowed_tools, turn,
                   current_thought_id, next_call, requests, executed>>

\* The model has sent the whole response.
StreamExhausted ==
    /\ stream.text_pos = Len(stream.resp.text)
    /\ stream.started = DOMAIN stream.resp.calls
    /\ \A i \in DOMAIN stream.resp.calls : stream.arg_pos[i] = Len(stream.resp.calls[i].args)

\* main.py line 214: reading the stream raises; nothing in handle_message
\* catches it, websocket_endpoint does (lines 338-339) and ends.
StreamFails ==
    /\ pc = "chunks"
    /\ Close
    /\ UNCHANGED <<nrecv, initialized, message, session, sent, requests, executed>>

\* ------------------------------------------------------ after the stream

\* main.py lines 238-245: the tool calls of the assistant message.
ToolCallsMsg(calls) ==
    LET keys == SortedKeys(DOMAIN calls)
    IN [k \in 1..Len(keys) |->
          [id |-> calls[keys[k]].id, type |-> "function",
           function |-> [name |-> calls[keys[k]].name, arguments |-> calls[keys[k]].args]]]

\* main.py lines 231-251: the stream is exhausted.
StreamEnds ==
    /\ pc = "chunks"
    /\ StreamExhausted
    /\ LET spoken == IF current_thought_content # ""
                     THEN Append(messages, [role |-> "assistant",
                                            content |-> current_thought_content])
                     ELSE messages
       IN IF DOMAIN tool_calls = {}
          THEN /\ messages' = spoken
               /\ Return
          ELSE /\ messages' = Append(spoken,
                      [role |-> "assistant",
                       content |-> IF current_thought_content # ""
                                   THEN current_thought_content ELSE None,
                       tool_calls |-> ToolCallsMsg(tool_calls)])
               /\ pc' = "tools"
               /\ next_call' = 0
               /\ stream' = NoStream
               /\ UNCHANGED <<allowed_tools, turn, current_thought_id,
                              current_thought_content, tool_calls, key_order>>
    /\ UNCHANGED <<nrecv, initialized, message, mode, sent, requests, executed>>

\* ---------------------------------------------------------- tool dispatch

\* main.py line 262.
EventId(call_id) == "evt-" \o call_id

\* main.py lines 266, 272, 286-291 and 297: the event sent before the executor runs.
StartEvent(func_name, event_id, a) ==
    CASE func_name = "run_terminal_command" ->
           [id |-> event_id, type |-> "command", command |-> a[1], output |-> ""]
      [] func_name = "read_file" ->
           [id |-> event_id, type |-> "file_read", path |-> a[1]]
      [] func_name = "write_file" ->
           [id |-> event_id, type |-> "file_write", path |-> a[1],
            content_preview |-> Preview(a[2]) \o "..."]
      [] func_name = "web_search" ->
           [id |-> event_id, type |-> "command",
            command |-> "web_search '" \o a[1] \o "'", output |-> "Searching..."]

\* main.py lines 268, 275-281, 293 and 299: the event sent after it.
ResultEvent(func_name, event_id, a, output) ==
    CASE func_name = "run_terminal_command" ->
           [id |-> event_id, type |-> "command", command |-> a[1], output |-> output]
      [] func_name = "read_file" ->
           [id |-> event_id, type |-> "file_read", path |-> a[1],
            lines |-> LineCount(output), content_preview |-> Preview(output)]
      [] func_name = "write_file" ->
           [id |-> event_id, type |-> "file_write", path |-> a[1], output |-> output]
      [] func_name = "web_search" ->
           [id |-> event_id, type |-> "command",
            command |-> "web_search '" \o a[1] \o "'", output |-> output]

\* A tool message that carries the event id instead of the call id.
ToolMessageEventId(call_id, output) ==
    [role |-> "tool", tool_call_id |-> "evt-" \o call_id, content |-> output]

\* main.py line 304.
ToolMessage(call_id, output) ==
    [role |-> "tool", tool_call_id |-> call_id, content |-> output]

\* main.py lines 264, 270, 283, 295 and 301: whether the name selects an executor.
Dispatches(func_name) == func_name \in ToolNames

\* A dispatch in which a name without an executor raises too.
RaisesOnUnknownName(func_name, args) == ~Dispatches(func_name) \/ ~args.dict

\* main.py lines 265, 271, 284 and 296: args.get on a value that is no dict
\* raises; only the branches of the registered names read args.
Raises(func_name, args) == Dispatches(func_name) /\ ~args.dict

\* main.py line 302: the result of a call whose name selects no executor.
NotFound == "Error: Tool not found."

\* What the executors may return: any of their answers in the first round, their
\* success afterwards.
Outputs(func_name, a) ==
    IF FirstRound THEN ToolOutputs(func_name, a)
    ELSE { CHOOSE o \in ToolOutputs(func_name, a) :
             o \in {"data", "out", "Title: t", "Successfully wrote to " \o a[1]} }

\* After a tool call: the next call of the response, the next iteration of the
\* loop (main.py line 198), or the end of handle_message.
Advance ==
    IF next_call + 1 < Cardinality(DOMAIN tool_calls)
    THEN /\ next_call' = next_call + 1
         /\ UNCHANGED <<pc, allowed_tools, turn, stream, current_thought_id,
                        current_thought_content, tool_calls, key_order>>
    ELSE IF LoopContinues(turn)
    THEN /\ pc' = "create"
         /\ UNCHANGED <<allowed_tools, turn, stream, current_thought_id,
                        current_thought_content, tool_calls, key_order, next_call>>
    ELSE Return

\* main.py lines 253-304: one tool call of the response.
ToolCall ==
    /\ pc = "tools"
    /\ LET idx == SortedKeys(DOMAIN tool_calls)[next_call + 1]
           tc == tool_calls[idx]
           func_name == tc.name
           call_id == tc.id
           args == ParseArgs(tc.args)
           event_id == EventId(call_id)
           a == [i \in 1..Len(ArgKeys(func_name)) |-> Get(args, ArgKeys(func_name)[i])]
       IN IF Raises(func_name, args)
          THEN \* the exception reaches websocket_endpoint, which ends
               /\ Close
               /\ UNCHANGED <<session, sent, executed>>
          ELSE IF Dispatches(func_name)
          THEN \E output \in Outputs(func_name, a) :
               /\ sent' = sent \o <<StartEvent(func_name, event_id, a),
                                    ResultEvent(func_name, event_id, a, output)>>
               /\ executed' = Append(executed, [name |-> func_name, args |-> a,
                                                after |-> Len(sent) + 1,
                                                transcript |-> Len(messages)])
               /\ messages' = Append(messages, ToolMessage(call_id, output))
               /\ Advance
               /\ UNCHANGED mode
          ELSE /\ messages' = Append(messages, ToolMessage(call_id, NotFound))
               /\ Advance
               /\ UNCHANGED <<mode, sent, executed>>
    /\ UNCHANGED <<nrecv, initialized, message, requests>>

\* ------------------------------------------------------- specification

Next ==
    \/ Receive
    \/ ReceiveFails
    \/ CreateStream
    \/ CreateFails
    \/ Chunk
    \/ StreamFails
    \/ StreamEnds
    \/ ToolCall

Spec == Init /\ [][Next]_vars

\* The steps of a connection whose model streams are finite: reading a stream
\* never raises.
NextFinite ==
    \/ Receive
    \/ ReceiveFails
    \/ CreateStream
    \/ CreateFails
    \/ Chunk
    \/ StreamEnds
    \/ ToolCall

\* The connection's task is scheduled as long as it can run: a completion
\* request returns or raises, a finite stream yields its next chunk or ends, and
\* a tool executor returns. Only the client decides whether a payload arrives.
Fairness ==
    /\ WF_vars(CreateStream \/ CreateFails)
    /\ WF_vars(Chunk)
    /\ WF_vars(StreamEnds)
    /\ WF_vars(ToolCall)

LiveSpec == Init /\ [][NextFinite]_vars /\ Fairness

\* ------------------------------------------------------------ properties

Range(seq) == {seq[i] : i \in DOMAIN seq}

IsPrefix(a, b) == Len(a) <= Len(b) /\ SubSeq(b, 1, Len(a)) = a

\* The assistant messages that carry tool calls.
Callers(msgs) == {i \in DOMAIN msgs : "tool_calls" \in DOMAIN msgs[i]}

\* The tool messages that directly follow message i.
ResultsAfter(msgs, i) ==
    Cardinality({j \in DOMAIN msgs :
                    j > i /\ \A k \in (i + 1)..j : msgs[k].role = "tool"})

\* C1, first part: every tool message answers, by position, a tool call of the
\* nearest preceding assistant message that has tool calls, and only tool
\* messages stand between the two.
ToolMessagesAnswerCalls ==
    \A j \in DOMAIN messages :
        messages[j].role = "tool" =>
            \E i \in Callers(messages) :
                /\ i < j
                /\ \A k \in (i + 1)..j : messages[k].role = "tool"
                /\ j - i <= Len(messages[i].tool_calls)
                /\ messages[j].tool_call_id = messages[i].tool_calls[j - i].id

\* C1, second part: whenever a completion request can be made (and between
\* turns), each assistant message with tool calls is followed by as many tool
\* messages as it has tool calls.
EveryCallAnswered ==
    pc \in {"create", "chunks", "receive"} =>
        \A i \in Callers(messages) :
            ResultsAfter(messages, i) = Len(messages[i].tool_calls)

\* C1: in every reachable transcript each tool message carries the id of a tool
\* call of the nearest preceding assistant message with tool calls, the tool
\* messages after such a message are in the order of its tool calls, and at
\* every completion request they are as many as its tool calls.
C1_ToolMessagesMatchCalls == ToolMessagesAnswerCalls /\ EveryCallAnswered

\* A completion request is about to be made over a transcript that holds an
\* assistant message with two tool calls and both results.
C1_Witness ==
    /\ pc = "create"
    /\ \E i \in Callers(messages) :
        /\ Len(messages[i].tool_calls) = 2
        /\ ResultsAfter(messages, i) = 2
        /\ messages[i + 2].tool_call_id = "call_1"

\* The completion requests made for the n-th user message.
RequestsFor(n) == Cardinality({i \in DOMAIN requests : requests[i].for_user = n})

\* C2: one call of handle_message never makes more than 10 completion requests.
C2_AtMostTenRequests ==
    \A n \in 1..UserCount(messages) : RequestsFor(n) <= 10

\* A turn has made its tenth request, answered by a tool call, and has ended.
C2_Witness ==
    /\ pc = "receive"
    /\ RequestsFor(UserCount(messages)) = 10
    /\ messages[Len(messages)].role = "tool"

\* C3: in chat mode every completion request is given exactly read_file and
\* web_search; in agent mode it is given all four tools.
C3_ToolsFollowMode ==
    \A i \in DOMAIN requests :
        /\ mode = "chat" => Range(requests[i].tools) = {"read_file", "web_search"}
        /\ mode = "agent" =>
              Range(requests[i].tools) =
                  {"read_file", "write_file", "run_terminal_command", "web_search"}

\* A chat session has made a completion request.
C3_Witness == mode = "chat" /\ requests # <<>>

\* C4 as claimed: in chat mode neither the write_file executor nor the
\* run_terminal_command executor is ever invoked, whatever the model streams.
C4_ChatNeverMutates ==
    mode = "chat" =>
        \A i \in DOMAIN executed :
            executed[i].name \notin {"write_file", "run_terminal_command"}

\* An event that announces a tool call, by its shape (main.py lines 266, 272,
\* 286-291, 297), as against the event that reports its result.
IsStart(e) ==
    CASE e.type = "file_read" -> "lines" \notin DOMAIN e
      [] e.type = "file_write" -> "content_preview" \in DOMAIN e
      [] e.type = "command" -> e.output \in {"", "Searching..."}
      [] OTHER -> FALSE

IsResult(e) == e.type \in {"file_read", "file_write", "command"} /\ ~IsStart(e)

\* The tool calls of the current response are being executed, or all have been.
InDispatch == pc = "tools" \/ (pc = "create" /\ turn > 0)

\* How many calls of the current response precede the call at idx, by index.
Rank(idx) == Cardinality({j \in DOMAIN tool_calls : j < idx})

\* The tool messages appended so far for the current response.
Answered ==
    LET last == CHOOSE i \in Callers(messages) : \A j \in Callers(messages) : j <= i
    IN ResultsAfter(messages, last)

\* The calls of the current response that were handled so far if calls are
\* handled by ascending index, and those among them that have an executor.
Handled == {idx \in DOMAIN tool_calls : Rank(idx) < Answered}
Emitting == {idx \in Handled : tool_calls[idx].name \in ToolNames}
EmitRank(idx) == Cardinality({j \in Emitting : j < idx})

\* C5: within one response the events are serialized per call: the events sent
\* since the response are, call by call in ascending index, the call's start
\* event directly followed by its result event, both with the call's event id.
C5_EventsSerializedPerCall ==
    InDispatch =>
        LET k == Cardinality(Emitting)
            base == Len(sent) - 2 * k
        IN /\ Len(sent) >= 2 * k
           /\ \A idx \in Emitting :
                LET s == sent[base + 2 * EmitRank(idx) + 1]
                    r == sent[base + 2 * EmitRank(idx) + 2]
                IN /\ "id" \in DOMAIN s /\ "id" \in DOMAIN r
                   /\ s.id = "evt-" \o tool_calls[idx].id
                   /\ r.id = "evt-" \o tool_calls[idx].id
                   /\ IsStart(s)
                   /\ IsResult(r)

\* Both calls of a two-call response have been executed and reported.
C5_Witness ==
    /\ InDispatch
    /\ Cardinality(Emitting) = 2
    /\ sent[Len(sent)].id = "evt-call_1"
    /\ sent[Len(sent) - 2].id = "evt-call_0"

\* How often each kind of event was sent for a call id, and how many tool calls
\* of the transcript carry the id.
StartsOf(id) ==
    Cardinality({i \in DOMAIN sent :
        "id" \in DOMAIN sent[i] /\ sent[i].id = "evt-" \o id /\ IsStart(sent[i])})
ResultsOf(id) ==
    Cardinality({i \in DOMAIN sent :
        "id" \in DOMAIN sent[i] /\ sent[i].id = "evt-" \o id /\ IsResult(sent[i])})
CallsOf(id) ==
    Cardinality({c \in Callers(messages) \X (1..MaxCalls) :
        c[2] <= Len(messages[c[1]].tool_calls) /\ messages[c[1]].tool_calls[c[2]].id = id})

\* C6 as claimed: once the tool calls of a response are handled, every one of
\* them, whatever its name, has caused exactly one start event and one result
\* event with its event id.
C6_EveryCallReported ==
    pc \in {"create", "chunks", "receive"} =>
        \A n \in 0..MaxCalls :
            /\ StartsOf(CallId(n)) = CallsOf(CallId(n))
            /\ ResultsOf(CallId(n)) = CallsOf(CallId(n))

\* The stream of a response sent unsplit: one whole fragment per call.
Unsplit(resp) ==
    LET n == Cardinality(DOMAIN resp.calls)
    IN [k \in 1..n |->
          [index |-> k - 1, id |-> CallId(k - 1), name |-> resp.calls[k - 1].name,
           arguments |-> Concat(resp.calls[k - 1].args)]]

\* C7: however the fragments of a response are split and interleaved, the
\* aggregator holds for each call begun its id, its name and the argument text
\* sent so far, and at the end of the stream holds what it makes of the unsplit
\* stream.
C7_SplitStreamSameCalls ==
    pc = "chunks" =>
        /\ DOMAIN tool_calls = stream.started
        /\ \A i \in stream.started :
              tool_calls[i] =
                  [id |-> CallId(i), name |-> stream.resp.calls[i].name,
                   args |-> Concat(SubSeq(stream.resp.calls[i].args, 1, stream.arg_pos[i]))]
        /\ StreamExhausted => tool_calls = AccumulateAll(<<>>, Unsplit(stream.resp))

\* Two calls of three pieces each, both cut after their first piece: their
\* fragments are single pieces and interleaved.
C7_Witness ==
    /\ pc = "chunks"
    /\ stream.started = {0, 1}
    /\ Len(stream.resp.calls[0].args) = 3 /\ Len(stream.resp.calls[1].args) = 3
    /\ stream.arg_pos[0] = 1 /\ stream.arg_pos[1] = 1
    /\ tool_calls[0].args = "{" /\ tool_calls[1].args = "{"

\* The session-started events sent so far (main.py lines 174-177).
StartedEvents ==
    {i \in DOMAIN sent : \E m \in {"agent", "chat", "plan"} : sent[i] = StartedEvent(m)}

\* The endpoint has just read a payload that asks for a session again: it names
\* a mode and is neither a user_message nor a get_file_content.
ReadsSecondInitialization ==
    /\ initialized
    /\ nrecv' = nrecv + 1
    /\ pc' # "closed"
    /\ message'.mode # None
    /\ message'.type \notin {"user_message", "get_file_content"}

\* C8: on an active session a second initialization has no effect: the mode
\* keeps its value, the transcript keeps its one system message and every later
\* message, no second session-started event is sent, and the payload that asks
\* for it changes nothing.
C8_SecondInitializeNoEffect ==
    /\ [](initialized =>
            /\ Cardinality(StartedEvents) = 1
            /\ {i \in DOMAIN messages : messages[i].role = "system"} = {1})
    /\ [][initialized =>
            /\ mode' = mode
            /\ IsPrefix(messages, messages')
            /\ IsPrefix(sent, sent')
            /\ ReadsSecondInitialization =>
                  UNCHANGED <<pc, initialized, session, locals, sent, requests, executed>>]_vars

\* An agent session with a turn behind it has just read a payload asking for
\* chat mode.
C8_Witness ==
    /\ initialized
    /\ pc = "receive"
    /\ mode = "agent"
    /\ message.mode = "chat"
    /\ Len(messages) > 2
    /\ UserCount(messages) = 1

\* The diagnostics sent for failed requests (main.py line 207).
Diagnostics ==
    {i \in DOMAIN sent : sent[i] = [type |-> "thought", content |-> "LLM Error: e"]}

\* C9: a failed completion request sends exactly one thought-typed diagnostic,
\* is the last request for its user message, and leaves the session active: the
\* endpoint reads again, and a user_message it then reads starts a new turn.
C9_FailedRequestAbortsTurn ==
    /\ [](/\ Cardinality(Diagnostics) =
               Cardinality({i \in DOMAIN requests : ~requests[i].ok})
          /\ \A i \in DOMAIN requests : \A j \in DOMAIN requests :
                (i < j /\ ~requests[i].ok) => requests[j].for_user > requests[i].for_user)
    /\ [][/\ (Len(requests') > Len(requests) /\ ~requests'[Len(requests')].ok) =>
                /\ sent' = Append(sent, [type |-> "thought", content |-> "LLM Error: e"])
                /\ pc' = "receive"
                /\ initialized'
                /\ UNCHANGED session
          /\ (initialized /\ nrecv' = nrecv + 1 /\ pc' # "closed"
                /\ message'.type = "user_message") =>
                /\ pc' = "create"
                /\ turn' = 0
                /\ UserCount(messages') = UserCount(messages) + 1]_vars

\* After a failed request, a later user message has got its own request.
C9_Witness ==
    \E i \in DOMAIN requests : \E j \in DOMAIN requests :
        /\ i < j
        /\ ~requests[i].ok
        /\ requests[i].for_user = 1
        /\ requests[j].for_user = 2
        /\ Cardinality(Diagnostics) = 1

\* The call of the current response that is handled next, by ascending index.
NextIndex == CHOOSE idx \in DOMAIN tool_calls : Rank(idx) = next_call

\* C10: a tool call whose argument text does not parse is executed with empty
\* strings for its arguments, its tool message is appended, and the turn goes
\* on: to the next call of the response, else to the next completion request
\* (or, after the tenth request, to its end).
C10_UnparsableArgsDegrade ==
    [][(/\ pc = "tools"
        /\ tool_calls[NextIndex].name \in ToolNames
        /\ ~json_loads(tool_calls[NextIndex].args).ok) =>
            LET tc == tool_calls[NextIndex]
            IN /\ Len(executed') = Len(executed) + 1
               /\ executed'[Len(executed')].name = tc.name
               /\ \A k \in DOMAIN executed'[Len(executed')].args :
                     executed'[Len(executed')].args[k] = ""
               /\ Len(messages') = Len(messages) + 1
               /\ messages'[Len(messages')].role = "tool"
               /\ messages'[Len(messages')].tool_call_id = tc.id
               /\ pc' = IF next_call + 1 < Cardinality(DOMAIN tool_calls) THEN "tools"
                        ELSE IF turn < 10 THEN "create" ELSE "receive"]_vars

\* A run_terminal_command call with truncated arguments ran with an empty
\* command, the call after it ran too, and the next request was made.
C10_Witness ==
    /\ Len(requests) = 2
    /\ Len(executed) = 2
    /\ executed[1].name = "run_terminal_command"
    /\ executed[1].args = <<"">>

\* The texts by which the executors report a failure.
FailureTexts ==
    UNION { (read_file(p) \ {"data"}) \cup (write_file(p, "") \ {"Successfully wrote to " \o p}) :
              p \in {"", "d/a.txt"} }
        \cup (run_terminal_command("") \ {"out"})
        \cup (web_search("") \ {"Title: t"})

\* Where the dispatch goes after the call it is handling: the next call of the
\* response, the next completion request, or the end of the turn.
AfterCall ==
    IF next_call + 1 < Cardinality(DOMAIN tool_calls) THEN "tools"
    ELSE IF turn < 10 THEN "create" ELSE "receive"

\* C11: a tool call with a name outside the four registered tools, and a tool
\* call whose executor reports a failure, never end the turn by an exception:
\* the call's tool message (for an unknown name, with the fixed text "Error: Tool
\* not found.") is appended with the call's id, and the turn goes on as it does
\* after any call.
C11_FailuresBecomeToolMessages ==
    [][pc = "tools" =>
         LET tc == tool_calls[NextIndex]
             unknown == tc.name \notin ToolNames
             failed == /\ Len(executed') = Len(executed) + 1
                       /\ messages'[Len(messages')].content \in FailureTexts
         IN (unknown \/ failed) =>
               /\ Len(messages') = Len(messages) + 1
               /\ IsPrefix(messages, messages')
               /\ messages'[Len(messages')].role = "tool"
               /\ messages'[Len(messages')].tool_call_id = tc.id
               /\ unknown => messages'[Len(messages')].content = "Error: Tool not found."
               /\ pc' = AfterCall]_vars

\* A response asked for an unregistered tool and for a command that timed out;
\* both were answered in the transcript and the next request was made.
C11_Witness ==
    /\ Len(requests) = 2
    /\ \E i \in DOMAIN messages : \E j \in DOMAIN messages :
        /\ messages[i].role = "tool" /\ messages[i].content = "Error: Tool not found."
        /\ messages[j].role = "tool" /\ messages[j].content = "Error: Command timed out."

\* The endpoint has just read a get_file_content payload.
ReadsFileRequest ==
    /\ nrecv' = nrecv + 1
    /\ pc' # "closed"
    /\ message'.type = "get_file_content"

\* C12: a get_file_content payload, before or after initialization, sends
\* exactly one file_content event for its path and nothing else: the
\* transcript, the mode and the initialized flag keep their values, no
\* completion request is made and no turn is started.
C12_FileRequestBypassesLoop ==
    [][ReadsFileRequest =>
          /\ Len(sent') = Len(sent) + 1
          /\ IsPrefix(sent, sent')
          /\ sent'[Len(sent')].type = "file_content"
          /\ sent'[Len(sent')].path = message'.path
          /\ UNCHANGED <<messages, mode, initialized, requests, executed, pc, locals>>]_vars

\* A file request was served before the session was initialized and another
\* one after it.
C12_Witness ==
    /\ initialized
    /\ pc = "receive"
    /\ Len(sent) = 3
    /\ sent[1].type = "file_content"
    /\ sent[2] = StartedEvent("chat")
    /\ sent[3].type = "file_content"
    /\ requests = <<>>

\* A turn is running: handle_message has been called and has not returned.
InTurn == pc \in {"create", "chunks", "tools"}

\* C13: payloads are processed one at a time: a payload is read only when no
\* turn is running (handle_message has returned and its locals are gone), and
\* while a turn runs no payload is read and no user message of another turn is
\* appended, so the appends and events between two reads belong to one turn.
C13_OnePayloadAtATime ==
    [][/\ nrecv' # nrecv =>
            /\ pc = "receive"
            /\ turn = 0 /\ stream = NoStream /\ tool_calls = <<>>
       /\ InTurn =>
            /\ nrecv' = nrecv
            /\ message' = message
            /\ UserCount(messages') = UserCount(messages)
            /\ IsPrefix(messages, messages')
            /\ IsPrefix(sent, sent')]_vars

\* A first turn ran to its end, with a tool call, before the second payload was
\* read; the turn of the second payload is now executing a tool call.
C13_Witness ==
    /\ nrecv = 2
    /\ pc = "tools"
    /\ UserCount(messages) = 2
    /\ message.type = "user_message"
    /\ \E i \in DOMAIN messages : \E j \in DOMAIN messages :
          /\ i < j
          /\ messages[i].role = "tool"
          /\ messages[j].role = "user"

\* The text of the response in flight that the model has sent so far.
TextSoFar == Concat(SubSeq(stream.resp.text, 1, stream.text_pos))

\* The thought event of the response in flight for the text received so far.
ThoughtSoFar == [id |-> current_thought_id, type |-> "thought", content |-> TextSoFar]

\* C14: while a response is streamed, each chunk with a non-empty text fragment
\* sends one thought event and any other chunk sends none; the events of the
\* response carry one id; each carries the concatenation of the text fragments
\* received so far; and the text appended to the transcript at the end of the
\* stream is the content of the last of them.
C14_ThoughtsAreCumulative ==
    /\ [](pc = "chunks" =>
            /\ current_thought_content = TextSoFar
            /\ stream.text_pos > 0 => sent[Len(sent)] = ThoughtSoFar)
    /\ [][pc = "chunks" =>
            /\ (pc' = "chunks" /\ stream'.text_pos > stream.text_pos) =>
                   /\ sent' = Append(sent, ThoughtSoFar')
                   /\ current_thought_id' = current_thought_id
            /\ (pc' = "chunks" /\ stream'.text_pos = stream.text_pos) => sent' = sent
            /\ (pc' \in {"tools", "receive"} /\ stream.text_pos > 0) =>
                   /\ sent' = sent
                   /\ \E i \in DOMAIN messages' :
                         /\ i > Len(messages)
                         /\ messages'[i].role = "assistant"
                         /\ messages'[i].content = sent[Len(sent)].content
            /\ (pc' \in {"tools", "receive"} /\ stream.text_pos = 0) =>
                   \A i \in DOMAIN messages' :
                       i > Len(messages) => "tool_calls" \in DOMAIN messages'[i]]_vars

\* A text of two fragments was streamed in two chunks: two thoughts with one
\* id, the second extending the first, and the whole text in the transcript.
C14_Witness ==
    /\ pc = "receive"
    /\ Len(sent) = 3
    /\ "id" \in DOMAIN sent[2] /\ "id" \in DOMAIN sent[3]
    /\ sent[2].id = sent[3].id
    /\ sent[2].content = "Hel"
    /\ sent[3].content = "Hello"
    /\ messages[Len(messages)] = [role |-> "assistant", content |-> "Hello"]

\* The event sent right before the i-th executor invocation: its start event.
StartEventOf(i) == sent[executed[i].after]

\* C15 as claimed: every command-typed start event, of a shell command and of a
\* web search alike, has an empty output field.
C15_CommandStartsHaveEmptyOutput ==
    \A i \in DOMAIN executed :
        StartEventOf(i).type = "command" => StartEventOf(i).output = ""

\* The stream index of the call with an id.
IndexOf(id) == CHOOSE n \in 0..MaxCalls : CallId(n) = id

\* The assistant message whose tool calls were being handled when the
\* transcript had n messages.
CallerAt(n) == CHOOSE c \in Callers(messages) : c <= n /\ \A d \in Callers(messages) : d <= n => d <= c

\* C16: the tool calls of a response run one after the other in ascending index
\* order, whatever the order in which their first fragments arrived: every
\* assistant message lists its tool calls by ascending index; each executor
\* invocation happens with that message already in the transcript, followed
\* only by the results of the calls listed before the invoked one; and the
\* result of the invoked call is the next message of the transcript.
C16_CallsRunInIndexOrder ==
    /\ \A c \in Callers(messages) :
          \A a \in DOMAIN messages[c].tool_calls : \A b \in DOMAIN messages[c].tool_calls :
              a < b => IndexOf(messages[c].tool_calls[a].id) < IndexOf(messages[c].tool_calls[b].id)
    /\ pc \in {"chunks", "tools"} => Range(key_order) = DOMAIN tool_calls
    /\ \A k \in DOMAIN executed :
          LET n == executed[k].transcript
          IN /\ \E c \in Callers(messages) : c <= n
             /\ LET c == CallerAt(n)
                    pos == n - c + 1
                IN /\ \A j \in (c + 1)..n : messages[j].role = "tool"
                   /\ pos <= Len(messages[c].tool_calls)
                   /\ messages[c].tool_calls[pos].function.name = executed[k].name
                   /\ Len(messages) > n
                   /\ messages[n + 1].role = "tool"
                   /\ messages[n + 1].tool_call_id = messages[c].tool_calls[pos].id
             /\ \A j \in DOMAIN executed : j < k => executed[j].transcript < n

\* The first fragment of the call at index 1 arrived before that of the call at
\* index 0; the call at index 0 ran first all the same, and its result is in
\* the transcript before the call at index 1 ran.
C16_Witness ==
    /\ pc = "create"
    /\ key_order = <<1, 0>>
    /\ tool_calls[0].name = "write_file"
    /\ tool_calls[1].name = "web_search"
    /\ Len(executed) = 2
    /\ executed[1].name = "write_file"
    /\ executed[2].name = "web_search"
    /\ executed[2].transcript = executed[1].transcript + 1

\* C17 as claimed: with finite streams and executors that return, every turn
\* ends with the session waiting for the next payload, never with the end of
\* the connection; it ends at a response without tool calls, at a failed
\* request or after its tenth request; and a response without tool calls ends
\* it without a further request.
C17_EveryTurnEnds ==
    /\ InTurn ~> pc = "receive"
    /\ [][InTurn =>
            /\ pc' # "closed"
            /\ pc' = "receive" =>
                  \/ pc = "chunks" /\ StreamExhausted /\ DOMAIN tool_calls = {}
                  \/ /\ pc = "create"
                     /\ Len(requests') = Len(requests) + 1
                     /\ ~requests'[Len(requests')].ok
                  \/ pc = "tools" /\ RequestsFor(UserCount(messages)) = 10
            /\ (pc = "chunks" /\ pc' # "chunks" /\ DOMAIN tool_calls = {}) =>
                  pc' = "receive" /\ requests' = requests]_vars

\* C18 as claimed: whatever mode the first payload names, a session whose
\* system message was rendered from the read-only (chat) template passes the
\* model neither write_file nor run_terminal_command.
C18_PromptAndToolsAgree ==
    (messages # <<>> /\ messages[1] = [role |-> "system", content |-> Render(PROMPT_CHAT)]) =>
        \A i \in DOMAIN requests :
            Range(requests[i].tools) \cap {"write_file", "run_terminal_command"} = {}

\* C19 as claimed: whatever the argument text of a tool call, the handling of
\* the call completes: its tool message is appended with the call's id and the
\* connection stays open.
C19_NoArgumentTextEndsSession ==
    [][pc = "tools" =>
          /\ pc' # "closed"
          /\ Len(messages') = Len(messages) + 1
          /\ messages'[Len(messages')].role = "tool"
          /\ messages'[Len(messages')].tool_call_id = tool_calls[NextIndex].id]_vars

\* C20 as claimed: when reading the stream raises, a thought-typed diagnostic
\* is sent, the turn ends, and the endpoint waits for the next payload with the
\* session still initialized.
C20_StreamFailureAbortsTurnOnly ==
    [][(pc = "chunks" /\ pc' \notin {"chunks", "tools"} /\ ~StreamExhausted) =>
          /\ pc' = "receive"
          /\ initialized'
          /\ Len(sent') = Len(sent) + 1
          /\ sent'[Len(sent')].type = "thought"]_vars

====
